---- MODULE Spec2Model ----
(***************************************************************************)
(* Confidential-token ledger program (spl-c-tokens-prototype).             *)
(*                                                                         *)
(* The model follows src/src/processor.rs (the four instruction handlers), *)
(* src/src/txdata.rs (the payloads, their verify_crypto and the sample     *)
(* clients), src/src/instruction.rs (the `transfer` helper) and            *)
(* src/src/state.rs (the Mint and Account records).                        *)
(*                                                                         *)
(* The Ristretto group is modelled as the module Z_Q x Z_Q: the point      *)
(* <<g, h>> stands for g*G + h*H, with G and H independent generators.     *)
(* A Pedersen commitment open*G + val*H is therefore <<open, val>>.        *)
(* A 32-byte compressed encoding is either the encoding of a point or a    *)
(* byte string that does not decompress.                                   *)
(***************************************************************************)
EXTENDS Integers, Sequences, FiniteSets, TLC

\* ------------------------------------------------------------------ bounds

\* Order of the scalar field / of the group generated by G (and by H).
Q == 5

\* Largest value of the supply counter (u64::MAX in the program, narrowed).
U64_MAX == 127

\* ------------------------------------------------------- program constants

\* impl Pack for Mint { const LEN: usize = 41; }
MINT_LEN == 41

\* impl Pack for Account { const LEN: usize = 65; }
ACCOUNT_LEN == 65

\* --------------------------------------------------------- scalars, points

Scalars == 0 .. (Q - 1)

Points == Scalars \X Scalars

\* RISTRETTO_BASEPOINT_POINT
G == <<1, 0>>

\* RistrettoPoint::hash_from_bytes(RISTRETTO_BASEPOINT_COMPRESSED): no known
\* discrete logarithm with respect to G.
H == <<0, 1>>

\* RistrettoPoint::identity() / RistrettoPoint::default()
Identity == <<0, 0>>

ScalarFrom(n) == n % Q

ScalarAdd(a, b) == (a + b) % Q

ScalarSub(a, b) == (a + Q - (b % Q)) % Q

ScalarMul(a, b) == (a * b) % Q

PointAdd(p, q) == <<(p[1] + q[1]) % Q, (p[2] + q[2]) % Q>>

PointNeg(p) == <<(Q - p[1]) % Q, (Q - p[2]) % Q>>

PointSub(p, q) == PointAdd(p, PointNeg(q))

\* scalar * point
PointMul(s, p) == <<(s * p[1]) % Q, (s * p[2]) % Q>>

\* CompressedRistretto: 32 bytes, which decompress to a point or to None.
Compress(p) == [valid |-> TRUE, pt |-> p]

\* A 32-byte string that is not the encoding of any point.
InvalidEncoding == [valid |-> FALSE, pt |-> Identity]

\* CompressedRistretto([0; 32]): the encoding of the identity.
ZeroBytes == Compress(Identity)

\* Scalar::hash_from_bytes::<Sha3_512>(bytes): a fixed function of the bytes.
HashToScalar(c) == IF c.valid THEN (2 * c.pt[1] + 3 * c.pt[2] + 1) % Q ELSE 3 % Q

\* The value (H coefficient) a commitment hides.
Value(p) == p[2]

\* -------------------------------------------------------------------- keys

\* Pubkey::default(): the all-zero key (the system program's id).
ZeroKey == "zero"

\* sysvar::rent::id()
RentKey == "rent"

AuthKeys == {"auth1", "auth2"}

MintKeys == {"mint1", "mint2"}

TokenKeys == {"acc1", "acc2", "acc3", "acc4", "acc5", "acc6"}

Keys == MintKeys \cup TokenKeys \cup AuthKeys \cup {RentKey, ZeroKey}

\* AccountInfo::data_len(): fixed when the host allocates the account.
data_len(k) ==
    IF k \in MintKeys THEN MINT_LEN
    ELSE IF k \in TokenKeys THEN ACCOUNT_LEN
    ELSE IF k = RentKey THEN 17
    ELSE 0

\* Rent::default().minimum_balance(data_len)
minimum_balance(len) == (128 + len) * 3480 * 2

\* A rent check that every balance passes.
always_exempt(lam, len) == TRUE

\* Rent::is_exempt(lamports, data_len)
is_exempt(lam, len) == lam >= minimum_balance(len)

\* ------------------------------------------------------------------- state

VARIABLES
    lamports,       \* AccountInfo::lamports of every account
    mint_state,     \* the Mint record held in the data of each 41-byte account
    account_state,  \* the Account record held in the data of each 65-byte account
    pc,             \* "idle": the host is between instructions; "done": Processor::process returned
    instr,          \* the instruction last handed to Processor::process
    result,         \* what Processor::process returned for it
    minted,         \* history: sum of the amounts of the accepted Mints per mint
    consumed        \* history: number of accepted Transfers that named the account as a source

ledger == <<lamports, mint_state, account_state>>

vars == <<lamports, mint_state, account_state, pc, instr, result, minted, consumed>>

\* Mint::default(): the zeroed record.
MintDefault == [mint_authority |-> ZeroKey, supply |-> 0, is_initialized |-> FALSE]

\* Account::default(): the zeroed record.
AccountDefault == [mint |-> ZeroKey, is_initialized |-> FALSE, comm |-> ZeroBytes]

\* Lamports the host funded each account with when it created it.
InitLamports(k) ==
    IF k \in {"mint2", "acc6"} THEN 57
    ELSE IF k \in MintKeys \cup TokenKeys THEN minimum_balance(data_len(k))
    ELSE IF k = RentKey THEN 1
    ELSE 0

NoInstr == [op |-> "None"]

Init ==
    /\ lamports = [k \in Keys |-> InitLamports(k)]
    /\ mint_state = [k \in MintKeys |-> MintDefault]
    /\ account_state = [k \in TokenKeys |-> AccountDefault]
    /\ pc = "idle"
    /\ instr = NoInstr
    /\ result = "None"
    /\ minted = [k \in MintKeys |-> 0]
    /\ consumed = [k \in TokenKeys |-> 0]

\* ------------------------------------------------------- account plumbing

\* Rent::from_account_info: the account must be the rent sysvar.
RentFromAccountInfo(k) == IF k = RentKey THEN "Ok" ELSE "InvalidArgument"

\* Pack::unpack_unchecked for Mint: the length check.
MintUnpackUnchecked(k) == IF data_len(k) = MINT_LEN THEN "Ok" ELSE "InvalidAccountData"

\* Pack::unpack_unchecked for Account: the length check.
AccountUnpackUnchecked(k) == IF data_len(k) = ACCOUNT_LEN THEN "Ok" ELSE "InvalidAccountData"

\* Pack::unpack for Mint: the length check, then is_initialized.
MintUnpack(k) ==
    IF data_len(k) # MINT_LEN THEN "InvalidAccountData"
    ELSE IF ~mint_state[k].is_initialized THEN "UninitializedAccount"
    ELSE "Ok"

\* A handler that returns an error after it has zeroed the lamports of its
\* first account.
ReturnAfterWrite(ins, res) ==
    /\ pc' = "done"
    /\ instr' = ins
    /\ result' = res
    /\ lamports' = [lamports EXCEPT ![ins.accounts[1]] = 0]
    /\ UNCHANGED <<mint_state, account_state>>

\* `return Err(res)` (or `?`) in a handler, passed on by Processor::process:
\* nothing has been packed into any account and no lamports were moved.
Return(ins, res) ==
    /\ pc' = "done"
    /\ instr' = ins
    /\ result' = res
    /\ UNCHANGED <<lamports, mint_state, account_state>>

\* ---------------------------------------------------------- InitializeMint

InitializeMintInstr(accts, authority) ==
    [op |-> "InitializeMint", accounts |-> accts, mint_authority |-> authority]

\* process_initialize_mint without the is_initialized check.
process_initialize_mint_overwrite(accts, mint_authority) ==
    LET ins == InitializeMintInstr(accts, mint_authority) IN
    IF Len(accts) < 2 THEN Return(ins, "NotEnoughAccountKeys")
    ELSE
    LET mint_info == accts[1]
        rent_info == accts[2]
    IN
    IF RentFromAccountInfo(rent_info) # "Ok" THEN Return(ins, RentFromAccountInfo(rent_info))
    ELSE IF MintUnpackUnchecked(mint_info) # "Ok" THEN Return(ins, MintUnpackUnchecked(mint_info))
    ELSE IF ~is_exempt(lamports[mint_info], data_len(mint_info)) THEN Return(ins, "NotRentExempt")
    ELSE
        /\ mint_state' = [mint_state EXCEPT ![mint_info] =
                            [@ EXCEPT !.mint_authority = mint_authority,
                                      !.is_initialized = TRUE]]
        /\ pc' = "done"
        /\ instr' = ins
        /\ result' = "Ok"
        /\ UNCHANGED <<lamports, account_state>>

\* Processor::process_initialize_mint
process_initialize_mint(accts, mint_authority) ==
    LET ins == InitializeMintInstr(accts, mint_authority) IN
    IF Len(accts) < 2 THEN Return(ins, "NotEnoughAccountKeys")
    ELSE
    LET mint_info == accts[1]
        rent_info == accts[2]
    IN
    IF RentFromAccountInfo(rent_info) # "Ok" THEN Return(ins, RentFromAccountInfo(rent_info))
    ELSE IF MintUnpackUnchecked(mint_info) # "Ok" THEN Return(ins, MintUnpackUnchecked(mint_info))
    ELSE IF mint_state[mint_info].is_initialized THEN Return(ins, "AlreadyInUse")
    ELSE IF ~is_exempt(lamports[mint_info], data_len(mint_info)) THEN Return(ins, "NotRentExempt")
    ELSE
        /\ mint_state' = [mint_state EXCEPT ![mint_info] =
                            [@ EXCEPT !.mint_authority = mint_authority,
                                      !.is_initialized = TRUE]]
        /\ pc' = "done"
        /\ instr' = ins
        /\ result' = "Ok"
        /\ UNCHANGED <<lamports, account_state>>

InitializeMintAccounts ==
    {<<m, RentKey>> : m \in MintKeys \cup {"acc1"}}
        \cup {<<"mint1", "auth1">>, <<"mint1">>}

InitializeMint ==
    /\ pc = "idle"
    /\ \E accts \in InitializeMintAccounts, authority \in AuthKeys :
          process_initialize_mint(accts, authority)
    /\ minted' = IF result' = "Ok"
                 THEN [minted EXCEPT ![instr'.accounts[1]] = 0]
                 ELSE minted
    /\ UNCHANGED consumed

\* -------------------------------------------------------------------- Mint

\* BorshRangeProof: an opaque proof blob; `for` is the commitment encoding the
\* prover built it for.
RangeProofFor(c) == [for |-> c]

\* RangeProof::verify_single(bp_gens, pc_gens, transcript, commitment, 64):
\* a proof verifies against the commitment it was built for, and no other.
RangeProofVerify(rp, c) == c.valid /\ rp.for = c

\* MintData::verify_crypto: the nonce and the commitment are decompressed and
\* unwrapped (a panic when either does not decode); the range proof and the
\* proof-of-knowledge relation are not checked.
MintData_verify_crypto(mint_data) ==
    LET nonce == mint_data.proof_knowledge.nonce
        c == HashToScalar(nonce)
    IN
    IF ~nonce.valid THEN "Panic"
    ELSE IF ~mint_data.out_comm.valid THEN "Panic"
    ELSE "Ok"

MintInstr(accts, signer, mint_data) ==
    [op |-> "Mint", accounts |-> accts, is_signer |-> signer, mint_data |-> mint_data]

\* An authority comparison that lets every key through.
any_owner(expected_authority, mint) == FALSE

\* `*expected_authority.key != *mint.mint_authority`
owner_mismatch(expected_authority, mint) == expected_authority # mint.mint_authority

\* A destination record that keeps the all-zero commitment.
initialized_account_zero_comm(mint_key, comm) ==
    [mint |-> mint_key, is_initialized |-> TRUE, comm |-> ZeroBytes]

\* The record a handler packs into a destination: mint := the mint account's
\* key, is_initialized := true, comm := the commitment of the instruction.
initialized_account(mint_key, comm) ==
    [mint |-> mint_key, is_initialized |-> TRUE, comm |-> comm]

\* u64::wrapping_add: the sum modulo 2^64.
wrapping_add(a, b) == <<(a + b) % (U64_MAX + 1)>>

\* u64::checked_add: Some(a + b), or None when the sum exceeds u64::MAX.
checked_add(a, b) == IF a + b > U64_MAX THEN <<>> ELSE <<a + b>>

\* process_mint without the check that the destination is not initialized.
process_mint_overwrite(accts, signer, mint_data) ==
    LET ins == MintInstr(accts, signer, mint_data) IN
    IF Len(accts) < 4 THEN Return(ins, "NotEnoughAccountKeys")
    ELSE
    LET mint_info == accts[1]
        dest_account_info == accts[2]
        expected_authority == accts[3]
        rent_info == accts[4]
    IN
    IF RentFromAccountInfo(rent_info) # "Ok" THEN Return(ins, RentFromAccountInfo(rent_info))
    ELSE IF AccountUnpackUnchecked(dest_account_info) # "Ok"
        THEN Return(ins, AccountUnpackUnchecked(dest_account_info))
    ELSE IF ~is_exempt(lamports[dest_account_info], data_len(dest_account_info))
        THEN Return(ins, "NotRentExempt")
    ELSE IF MintData_verify_crypto(mint_data) # "Ok"
        THEN Return(ins, MintData_verify_crypto(mint_data))
    ELSE IF MintUnpack(mint_info) # "Ok" THEN Return(ins, MintUnpack(mint_info))
    ELSE IF owner_mismatch(expected_authority, mint_state[mint_info])
        THEN Return(ins, "OwnerMismatch")
    ELSE IF checked_add(mint_state[mint_info].supply, mint_data.amount) = <<>>
        THEN Return(ins, "Overflow")
    ELSE
        /\ account_state' = [account_state EXCEPT ![dest_account_info] =
                                initialized_account(mint_info, mint_data.out_comm)]
        /\ mint_state' = [mint_state EXCEPT ![mint_info].supply =
                            checked_add(@, mint_data.amount)[1]]
        /\ pc' = "done"
        /\ instr' = ins
        /\ result' = "Ok"
        /\ UNCHANGED lamports

\* Processor::process_mint
process_mint(accts, signer, mint_data) ==
    LET ins == MintInstr(accts, signer, mint_data) IN
    IF Len(accts) < 4 THEN Return(ins, "NotEnoughAccountKeys")
    ELSE
    LET mint_info == accts[1]
        dest_account_info == accts[2]
        expected_authority == accts[3]
        rent_info == accts[4]
    IN
    IF RentFromAccountInfo(rent_info) # "Ok" THEN Return(ins, RentFromAccountInfo(rent_info))
    ELSE IF AccountUnpackUnchecked(dest_account_info) # "Ok"
        THEN Return(ins, AccountUnpackUnchecked(dest_account_info))
    ELSE IF account_state[dest_account_info].is_initialized THEN Return(ins, "AlreadyInUse")
    ELSE IF ~is_exempt(lamports[dest_account_info], data_len(dest_account_info))
        THEN Return(ins, "NotRentExempt")
    ELSE IF MintData_verify_crypto(mint_data) # "Ok"
        THEN Return(ins, MintData_verify_crypto(mint_data))
    ELSE IF MintUnpack(mint_info) # "Ok" THEN Return(ins, MintUnpack(mint_info))
    ELSE IF owner_mismatch(expected_authority, mint_state[mint_info])
        THEN Return(ins, "OwnerMismatch")
    ELSE IF checked_add(mint_state[mint_info].supply, mint_data.amount) = <<>>
        THEN Return(ins, "Overflow")
    ELSE
        /\ account_state' = [account_state EXCEPT ![dest_account_info] =
                                initialized_account(mint_info, mint_data.out_comm)]
        /\ mint_state' = [mint_state EXCEPT ![mint_info].supply =
                            checked_add(@, mint_data.amount)[1]]
        /\ pc' = "done"
        /\ instr' = ins
        /\ result' = "Ok"
        /\ UNCHANGED lamports

\* Commitment encodings an instruction may carry.
CommSet == {ZeroBytes, Compress(<<1, 1>>), InvalidEncoding}

\* Commitment encodings that decompress.
ValidCommSet == {c \in CommSet : c.valid}

\* Nonce encodings a proof of knowledge may carry.
NonceSet == {Compress(G), InvalidEncoding}

\* Response scalars a proof of knowledge may carry.
ResponseSet == {0, 2}

\* Cleartext amounts a Mint may carry (57 then 43 is the program's own test).
AmountSet == {43, 57}

ProofSet == {[nonce |-> n, scalar |-> s] : n \in NonceSet, s \in ResponseSet}

\* A proof of knowledge that decodes.
BaseProof == [nonce |-> Compress(G), scalar |-> 0]

\* The order in which the host hands out new token-account keys
\* (Pubkey::new_unique in the program's tests).
TokenOrder == <<"acc1", "acc2", "acc3", "acc4", "acc5", "acc6">>

KeyIndex(k) == CHOOSE i \in 1 .. Len(TokenOrder) : TokenOrder[i] = k

\* Token accounts exactly as the host created them: zeroed data, the lamports
\* they were funded with, rent-exempt.  Such accounts differ only in their key.
Fresh ==
    {k \in TokenKeys : /\ account_state[k] = AccountDefault
                       /\ lamports[k] = InitLamports(k)
                       /\ is_exempt(lamports[k], data_len(k))}

\* The next two keys the host would hand out.
FreshPick == {k \in Fresh : Cardinality({j \in Fresh : KeyIndex(j) < KeyIndex(k)}) < 2}

\* The lowest fresh key: the account the host opens for the next recipient.
NextFresh == {k \in Fresh : \A j \in Fresh : KeyIndex(k) <= KeyIndex(j)}

\* Token accounts that are not fresh: written to, closed or under-funded.
Used == TokenKeys \ Fresh

\* Token accounts an instruction may name: every used one and the next fresh one.
Candidates == Used \cup NextFresh

\* Mints that vary the accounts and the signer bit.
MintByAccounts ==
    {<<accts, signer,
       [amount |-> 57, out_comm |-> Compress(<<1, 1>>),
        range_proof |-> RangeProofFor(Compress(<<1, 1>>)),
        proof_knowledge |-> BaseProof]>> :
        accts \in {<<"mint1", d, au, RentKey>> : d \in Candidates, au \in AuthKeys}
                    \cup {<<"mint2", "acc1", "auth1", RentKey>>,
                          <<"acc1", "acc2", "auth1", RentKey>>,
                          <<"mint1", "mint1", "auth1", RentKey>>,
                          <<"mint1", "acc1", "auth1", "auth1">>,
                          <<"mint1", "acc1", "auth1">>},
        signer \in BOOLEAN}

\* Mints that vary the data: into the next fresh account, signed by the mint's
\* authority, with every combination of amount, commitment, range proof and
\* proof of knowledge.
MintByData ==
    {<<<<"mint1", d, mint_state["mint1"].mint_authority, RentKey>>, TRUE,
       [amount |-> a, out_comm |-> c, range_proof |-> rp, proof_knowledge |-> pk]>> :
        d \in NextFresh,
        a \in AmountSet, c \in CommSet,
        rp \in {RangeProofFor(x) : x \in ValidCommSet},
        pk \in ProofSet}

Mint ==
    /\ pc = "idle"
    /\ \E inp \in MintByAccounts \cup MintByData :
          process_mint(inp[1], inp[2], inp[3])
    /\ minted' = IF result' = "Ok"
                 THEN [minted EXCEPT ![instr'.accounts[1]] = @ + instr'.mint_data.amount]
                 ELSE minted
    /\ UNCHANGED consumed

\* ---------------------------------------------------------------- Transfer

\* TransferData::verify_crypto: both nonces and all four commitments are
\* decompressed and unwrapped (a panic when one does not decode); the range
\* proofs and the proof-of-knowledge relation are not checked.
TransferData_verify_crypto(transfer_data) ==
    LET sender_nonce == transfer_data.proofs_knowledge[1].nonce
        receiver_nonce == transfer_data.proofs_knowledge[2].nonce
        sender_c == HashToScalar(sender_nonce)
        receiver_c == HashToScalar(receiver_nonce)
    IN
    IF ~sender_nonce.valid THEN "Panic"
    ELSE IF ~receiver_nonce.valid THEN "Panic"
    ELSE IF ~transfer_data.out_comms[1].valid THEN "Panic"
    ELSE IF ~transfer_data.in_comms[1].valid THEN "Panic"
    ELSE IF ~transfer_data.out_comms[2].valid THEN "Panic"
    ELSE IF ~transfer_data.in_comms[2].valid THEN "Panic"
    ELSE "Ok"

\* `interim` is the interim commitment of the sender's message to the receiver;
\* it is not part of the instruction's bytes.
TransferInstr(accts, transfer_data, interim) ==
    [op |-> "Transfer", accounts |-> accts, transfer_data |-> transfer_data,
     interim_comm |-> interim]

\* A commitment comparison that looks at the sender's source only.
sender_commitment_mismatch(sender_source_account, receiver_source_account, in_comms) ==
    sender_source_account.comm # in_comms[1]

\* `(sender_source_account.comm, receiver_source_account.comm) != transfer_data.in_comms`
commitment_mismatch(sender_source_account, receiver_source_account, in_comms) ==
    <<sender_source_account.comm, receiver_source_account.comm>> # in_comms

\* A mint comparison that looks at the sender's source only.
sender_mint_mismatch(sender_source_account, receiver_source_account, mint_key) ==
    sender_source_account.mint # mint_key

\* `*sender_source_account.mint != *mint_info.key
\*  || *receiver_source_account.mint != *mint_info.key`
mint_mismatch(sender_source_account, receiver_source_account, mint_key) ==
    sender_source_account.mint # mint_key \/ receiver_source_account.mint # mint_key

\* A destination check that looks at the sender's destination only.
sender_already_in_use(sender_dest_account, receiver_dest_account) ==
    sender_dest_account.is_initialized

\* `sender_dest_account.is_initialized || receiver_dest_account.is_initialized`
already_in_use(sender_dest_account, receiver_dest_account) ==
    sender_dest_account.is_initialized \/ receiver_dest_account.is_initialized

\* Writes that close the sender's source only.
close_sender_and_initialize(mint_info, sender_source_account_info, receiver_source_account_info, sender_dest_account_info, receiver_dest_account_info, out_comms) ==
    /\ lamports' = [k \in Keys |->
                      IF k = sender_source_account_info THEN 0 ELSE lamports[k]]
    /\ account_state' =
          [[account_state EXCEPT ![sender_dest_account_info] =
                initialized_account(mint_info, out_comms[1])]
              EXCEPT ![receiver_dest_account_info] =
                initialized_account(mint_info, out_comms[2])]
    /\ UNCHANGED mint_state

\* Writes that also take the supply of the passed mint down to zero.
close_and_initialize_and_burn(mint_info, sender_source_account_info, receiver_source_account_info, sender_dest_account_info, receiver_dest_account_info, out_comms) ==
    /\ lamports' = [k \in Keys |->
                      IF k \in {sender_source_account_info, receiver_source_account_info}
                      THEN 0 ELSE lamports[k]]
    /\ account_state' =
          [[account_state EXCEPT ![sender_dest_account_info] =
                initialized_account(mint_info, out_comms[1])]
              EXCEPT ![receiver_dest_account_info] =
                initialized_account(mint_info, out_comms[2])]
    /\ mint_state' = [m \in MintKeys |->
                        IF m = mint_info THEN [mint_state[m] EXCEPT !.supply = 0]
                        ELSE mint_state[m]]

\* The writes of an accepted Transfer: both source accounts are closed, then
\* the sender's destination is packed, then the receiver's; the mint account
\* is only read for its key.
close_and_initialize(mint_info, sender_source_account_info, receiver_source_account_info, sender_dest_account_info, receiver_dest_account_info, out_comms) ==
    /\ lamports' = [k \in Keys |->
                      IF k \in {sender_source_account_info, receiver_source_account_info}
                      THEN 0 ELSE lamports[k]]
    /\ account_state' =
          [[account_state EXCEPT ![sender_dest_account_info] =
                initialized_account(mint_info, out_comms[1])]
              EXCEPT ![receiver_dest_account_info] =
                initialized_account(mint_info, out_comms[2])]
    /\ UNCHANGED mint_state

\* Processor::process_transfer
process_transfer(accts, transfer_data, interim) ==
    LET ins == TransferInstr(accts, transfer_data, interim) IN
    IF Len(accts) < 2 THEN Return(ins, "NotEnoughAccountKeys")
    ELSE IF AccountUnpackUnchecked(accts[2]) # "Ok"
        THEN Return(ins, AccountUnpackUnchecked(accts[2]))
    ELSE IF Len(accts) < 3 THEN Return(ins, "NotEnoughAccountKeys")
    ELSE IF AccountUnpackUnchecked(accts[3]) # "Ok"
        THEN Return(ins, AccountUnpackUnchecked(accts[3]))
    ELSE
    LET mint_info == accts[1]
        sender_source_account_info == accts[2]
        receiver_source_account_info == accts[3]
        sender_source_account == account_state[sender_source_account_info]
        receiver_source_account == account_state[receiver_source_account_info]
    IN
    IF commitment_mismatch(sender_source_account, receiver_source_account,
                           transfer_data.in_comms)
        THEN Return(ins, "CommitmentMismatch")
    ELSE IF mint_mismatch(sender_source_account, receiver_source_account, mint_info)
        THEN Return(ins, "MintMismatch")
    ELSE IF Len(accts) < 4 THEN Return(ins, "NotEnoughAccountKeys")
    ELSE IF AccountUnpackUnchecked(accts[4]) # "Ok"
        THEN Return(ins, AccountUnpackUnchecked(accts[4]))
    ELSE IF Len(accts) < 5 THEN Return(ins, "NotEnoughAccountKeys")
    ELSE IF AccountUnpackUnchecked(accts[5]) # "Ok"
        THEN Return(ins, AccountUnpackUnchecked(accts[5]))
    ELSE
    LET sender_dest_account_info == accts[4]
        receiver_dest_account_info == accts[5]
    IN
    IF already_in_use(account_state[sender_dest_account_info],
                      account_state[receiver_dest_account_info])
        THEN Return(ins, "AlreadyInUse")
    ELSE IF Len(accts) < 6 THEN Return(ins, "NotEnoughAccountKeys")
    ELSE IF RentFromAccountInfo(accts[6]) # "Ok" THEN Return(ins, RentFromAccountInfo(accts[6]))
    ELSE IF \/ ~is_exempt(lamports[sender_dest_account_info], data_len(sender_dest_account_info))
            \/ ~is_exempt(lamports[sender_dest_account_info], data_len(sender_dest_account_info))
        THEN Return(ins, "NotRentExempt")
    ELSE IF TransferData_verify_crypto(transfer_data) # "Ok"
        THEN Return(ins, TransferData_verify_crypto(transfer_data))
    ELSE
        /\ close_and_initialize(mint_info, sender_source_account_info,
                                receiver_source_account_info, sender_dest_account_info,
                                receiver_dest_account_info, transfer_data.out_comms)
        /\ pc' = "done"
        /\ instr' = ins
        /\ result' = "Ok"

\* The token accounts that hold an initialized record.
Initialized == {k \in TokenKeys : account_state[k].is_initialized}

\* The two initialized token accounts with the lowest keys, in key order (the
\* lowest twice when there is only one).
FirstSources ==
    LET two == {k \in Initialized :
                  Cardinality({j \in Initialized : KeyIndex(j) < KeyIndex(k)}) < 2}
    IN {p \in two \X two :
          IF Cardinality(two) = 2 THEN KeyIndex(p[1]) < KeyIndex(p[2]) ELSE TRUE}

\* The two initialized token accounts with the highest keys, in key order.
LastSources ==
    LET two == {k \in Initialized :
                  Cardinality({j \in Initialized : KeyIndex(j) > KeyIndex(k)}) < 2}
    IN {p \in two \X two : KeyIndex(p[1]) < KeyIndex(p[2])}

\* Source pairs a Transfer may name: the first and the last sources, the first
\* ones swapped or doubled, and the first one beside any account that holds no
\* record.
SourcePairs ==
    FirstSources \cup LastSources
        \cup {<<p[2], p[1]>> : p \in FirstSources}
        \cup {<<p[1], p[1]>> : p \in FirstSources}
        \cup {<<p[1], x>> : p \in FirstSources, x \in Candidates \ Initialized}

\* The next two fresh accounts, in key order, as a destination pair.
FreshDests == {p \in FreshPick \X FreshPick : KeyIndex(p[1]) < KeyIndex(p[2])}

\* Destination pairs a Transfer may name: the fresh pair, the next fresh
\* account twice, and the next fresh account beside any used account.
DestPairs ==
    FreshDests
        \cup {<<a, a>> : a \in NextFresh}
        \cup {<<a, x>> : a \in NextFresh, x \in Used}
        \cup {<<x, a>> : a \in NextFresh, x \in Used}

\* The in_comms an honest client reads from the two source accounts.
StoredComms(s0, s1) == <<account_state[s0].comm, account_state[s1].comm>>

\* Another decodable encoding than `c`.
Tamper(c) == IF c = ZeroBytes THEN Compress(<<1, 1>>) ELSE ZeroBytes

\* The in_comms of a client that reads the sources (0), alters the first (1)
\* or the second (2), or sends bytes that do not decode (3).
TamperedComms(s0, s1, tm) ==
    CASE tm = 0 -> StoredComms(s0, s1)
      [] tm = 1 -> <<Tamper(account_state[s0].comm), account_state[s1].comm>>
      [] tm = 2 -> <<account_state[s0].comm, Tamper(account_state[s1].comm)>>
      [] OTHER -> <<InvalidEncoding, account_state[s1].comm>>

\* The transfer data of a client that reads the sources and sends `oc`.
ClientData(s0, s1, oc) ==
    [in_comms |-> StoredComms(s0, s1),
     out_comms |-> oc,
     range_proofs |-> <<RangeProofFor(oc[1]), RangeProofFor(oc[2])>>,
     proofs_knowledge |-> <<BaseProof, BaseProof>>]

\* Transfers that vary the accounts: any source pair under either mint with the
\* fresh destinations, the first sources with any destination pair, and two
\* accounts that hold no record under the all-zero mint key.
TransferByAccounts ==
    {<<<<m, sp[1], sp[2], dp[1], dp[2], RentKey>>,
       ClientData(sp[1], sp[2], <<ZeroBytes, Compress(<<1, 1>>)>>)>> :
        m \in MintKeys, sp \in SourcePairs, dp \in FreshDests}
    \cup
    {<<<<"mint1", sp[1], sp[2], dp[1], dp[2], RentKey>>,
       ClientData(sp[1], sp[2], <<ZeroBytes, Compress(<<1, 1>>)>>)>> :
        sp \in FirstSources, dp \in DestPairs}
    \cup
    {<<<<ZeroKey, dp[1], dp[2], dp[1], dp[2], RentKey>>,
       ClientData(dp[1], dp[2], <<ZeroBytes, Compress(<<1, 1>>)>>)>> :
        dp \in FreshDests}

\* Transfers that vary the data: the first sources and the fresh destinations,
\* with every combination of output commitments and sender proof, and with
\* tampered in_comms, mispaired range proofs or an undecodable receiver nonce.
TransferByData ==
    {<<<<"mint1", sp[1], sp[2], dp[1], dp[2], RentKey>>,
       [in_comms |-> StoredComms(sp[1], sp[2]), out_comms |-> oc,
        range_proofs |-> <<RangeProofFor(oc[1]), RangeProofFor(oc[2])>>,
        proofs_knowledge |-> <<pk0, BaseProof>>]>> :
        sp \in FirstSources, dp \in FreshDests,
        oc \in (CommSet \X CommSet), pk0 \in ProofSet}
    \cup
    {<<<<"mint1", sp[1], sp[2], dp[1], dp[2], RentKey>>,
       [in_comms |-> TamperedComms(sp[1], sp[2], tm),
        out_comms |-> <<ZeroBytes, ZeroBytes>>,
        range_proofs |-> rp,
        proofs_knowledge |-> <<BaseProof, pk1>>]>> :
        sp \in FirstSources, dp \in FreshDests,
        tm \in 0 .. 3,
        rp \in ({RangeProofFor(c) : c \in ValidCommSet} \X {RangeProofFor(c) : c \in ValidCommSet}),
        pk1 \in {BaseProof, [nonce |-> InvalidEncoding, scalar |-> 0]}}

\* Transfers with an account of the wrong kind, a wrong rent sysvar or too
\* few accounts.
TransferMalformed ==
    {<<accts,
       [in_comms |-> <<ZeroBytes, ZeroBytes>>,
        out_comms |-> <<ZeroBytes, ZeroBytes>>,
        range_proofs |-> <<RangeProofFor(ZeroBytes), RangeProofFor(ZeroBytes)>>,
        proofs_knowledge |-> <<BaseProof, BaseProof>>]>> :
        accts \in {<<"mint1", "mint1", "acc1", "acc2", "acc3", RentKey>>,
                   <<"mint1", "acc1", "mint1", "acc2", "acc3", RentKey>>,
                   <<ZeroKey, "acc5", "acc5", "mint1", "acc3", RentKey>>,
                   <<ZeroKey, "acc5", "acc5", "acc4", "mint1", RentKey>>,
                   <<ZeroKey, "acc5", "acc5", "acc4", "acc3", "auth1">>,
                   <<ZeroKey>>,
                   <<ZeroKey, "acc5">>,
                   <<ZeroKey, "acc5", "acc5">>,
                   <<ZeroKey, "acc5", "acc5", "acc4">>,
                   <<ZeroKey, "acc5", "acc5", "acc4", "acc3">>}}

\* The interim commitments of the sender's message.
InterimSet == {Compress(<<3, 1>>)}

Transfer ==
    /\ pc = "idle"
    /\ \E inp \in TransferByAccounts \cup TransferByData \cup TransferMalformed,
          interim \in InterimSet :
          process_transfer(inp[1], inp[2], interim)
    /\ consumed' = IF result' = "Ok"
                   THEN [k \in TokenKeys |->
                           IF k \in {instr'.accounts[2], instr'.accounts[3]}
                           THEN consumed[k] + 1 ELSE consumed[k]]
                   ELSE consumed
    /\ UNCHANGED minted

\* ------------------------------------------------------------ CloseAccount

CloseAccountInstr(accts, close_account_data) ==
    [op |-> "CloseAccount", accounts |-> accts, close_account_data |-> close_account_data]

\* Processor::process_close_account: returns Ok(()) and touches nothing.
process_close_account(accts, close_account_data) ==
    /\ pc' = "done"
    /\ instr' = CloseAccountInstr(accts, close_account_data)
    /\ result' = "Ok"
    /\ UNCHANGED <<lamports, mint_state, account_state>>

CloseAccount ==
    /\ pc = "idle"
    /\ \E src \in Candidates, dst \in NextFresh \cup {"acc1"}, a \in {22} :
          process_close_account(<<src, dst>>, [amount |-> a])
    /\ UNCHANGED <<minted, consumed>>

\* The host takes the result and is ready for the next instruction.
HostReturn ==
    /\ pc = "done"
    /\ pc' = "idle"
    /\ instr' = NoInstr
    /\ result' = "None"
    /\ UNCHANGED <<lamports, mint_state, account_state, minted, consumed>>

Next ==
    \/ InitializeMint
    \/ Mint
    \/ Transfer
    \/ CloseAccount
    \/ HostReturn

Spec == Init /\ [][Next]_vars

\* The records a 41-byte account may decode to before InitializeMint, when the
\* host hands the program an account whose data is not all zero:
\* Mint::unpack_unchecked accepts any bytes, and is_initialized is false.
UninitializedMintBytes ==
    {MintDefault, [mint_authority |-> "auth2", supply |-> 5, is_initialized |-> FALSE]}

\* As Init, with the data of the mint accounts drawn from UninitializedMintBytes.
InitAnyBytes ==
    /\ lamports = [k \in Keys |-> InitLamports(k)]
    /\ mint_state \in [MintKeys -> UninitializedMintBytes]
    /\ account_state = [k \in TokenKeys |-> AccountDefault]
    /\ pc = "idle"
    /\ instr = NoInstr
    /\ result = "None"
    /\ minted = [k \in MintKeys |-> 0]
    /\ consumed = [k \in TokenKeys |-> 0]

SpecAnyBytes == InitAnyBytes /\ [][Next]_vars

\* ------------------------------------------------------------------ client

\* Largest cleartext amount a client holds or sends.
MaxAmount == 2

ClientAmounts == 0 .. MaxAmount

\* Scalars that Scalar::random returns for an opening.
OpenSet == {1, 3}

\* Scalars that Scalar::random returns for a nonce.
NonceScalarSet == {2, 4}

\* u64 subtraction as a release build computes it: the difference modulo 2^64.
wrapping_sub(a, b) == (a + (U64_MAX + 1) - b) % (U64_MAX + 1)

\* A commitment without the blinding term.
Pedersen_commit_unblinded(open, val) == Compress(PointMul(val, H))

\* Pedersen::commit(PedersenBase::default(), val): C = open*G + val*H,
\* compressed; `open` is the scalar the function samples and returns.
Pedersen_commit(open, val) == Compress(PointAdd(PointMul(open, G), PointMul(val, H)))

\* commit_pedersen(amount): the commitment to the u64 amount under the sampled
\* opening `open`.
commit_pedersen(open, amount) == Pedersen_commit(open, ScalarFrom(amount))

\* The openings (opening, amount) of a stored commitment that its holder may know.
Openings(c) == {o \in Scalars \X ClientAmounts : commit_pedersen(o[1], o[2]) = c}

\* sample_mint_client_for_test(amount)
sample_mint_client_for_test(amount) ==
    [amount |-> amount,
     out_comm |-> ZeroBytes,
     range_proof |-> RangeProofFor(ZeroBytes),
     proof_knowledge |-> [nonce |-> ZeroBytes, scalar |-> 0]]

\* sample_transfer_sender_client_for_test; the last three arguments are the
\* scalars it samples (the two openings inside commit_pedersen, the nonce).
sample_transfer_sender_client_for_test(sender_source_comm, sender_source_open, sender_source_amount, transfer_amount, sender_dest_open, interim_open, nonce_scalar) ==
    LET sender_dest_comm ==
            commit_pedersen(sender_dest_open,
                            wrapping_sub(sender_source_amount, transfer_amount))
        interim_comm == commit_pedersen(interim_open, transfer_amount)
        nonce == PointMul(nonce_scalar, Identity)
        c_scalar == HashToScalar(Compress(nonce))
        proof_knowledge_scalar ==
            ScalarAdd(ScalarMul(ScalarSub(ScalarSub(sender_source_open, sender_dest_open),
                                          interim_open),
                                c_scalar),
                      nonce_scalar)
    IN [transfer_amount |-> transfer_amount,
        sender_source_comm |-> sender_source_comm,
        sender_dest_comm |-> sender_dest_comm,
        sender_dest_range_proof |-> RangeProofFor(sender_dest_comm),
        interim_comm |-> interim_comm,
        interim_open |-> interim_open,
        proof_knowledge_sender |-> [nonce |-> Compress(nonce),
                                    scalar |-> proof_knowledge_scalar]]

\* sample_transfer_receiver_client_for_test; the last two arguments are the
\* scalars it samples (the opening inside commit_pedersen, the nonce).
sample_transfer_receiver_client_for_test(sender_message, receiver_source_comm, receiver_source_open, receiver_dest_open, nonce_scalar) ==
    LET receiver_dest_comm ==
            commit_pedersen(receiver_dest_open, sender_message.transfer_amount)
        nonce == PointMul(nonce_scalar, Identity)
        c_scalar == HashToScalar(Compress(nonce))
        proof_knowledge_scalar ==
            ScalarAdd(ScalarMul(ScalarSub(ScalarAdd(receiver_source_open,
                                                    sender_message.interim_open),
                                          receiver_dest_open),
                                c_scalar),
                      nonce_scalar)
    IN [in_comms |-> <<sender_message.sender_source_comm, receiver_source_comm>>,
        out_comms |-> <<sender_message.sender_dest_comm, receiver_dest_comm>>,
        range_proofs |-> <<sender_message.sender_dest_range_proof,
                           RangeProofFor(receiver_dest_comm)>>,
        proofs_knowledge |-> <<sender_message.proof_knowledge_sender,
                               [nonce |-> Compress(nonce),
                                scalar |-> proof_knowledge_scalar]>>]

\* instruction::transfer: the account metas and the data of the Instruction
\* it builds; mint_pubkey is a parameter that the account list leaves out.
transfer(mint_pubkey, sender_source_pubkey, receiver_source_pubkey, sender_dest_pubkey, receiver_dest_pubkey, transfer_data) ==
    [accounts |-> <<sender_source_pubkey, receiver_source_pubkey,
                    sender_dest_pubkey, receiver_dest_pubkey, RentKey>>,
     data |-> transfer_data]

\* The authority mints a client's amount into the next fresh account, as
\* test_transfer does: the sample mint data with its commitment replaced by
\* commit_pedersen(amount).  At most two accounts are funded this way.
ClientMint ==
    /\ pc = "idle"
    /\ Cardinality(Initialized) < 2
    /\ \E d \in NextFresh, amount \in ClientAmounts, open \in OpenSet :
          process_mint(<<"mint1", d, "auth1", RentKey>>, TRUE,
                       [sample_mint_client_for_test(amount)
                          EXCEPT !.out_comm = commit_pedersen(open, amount)])
    /\ minted' = IF result' = "Ok"
                 THEN [minted EXCEPT ![instr'.accounts[1]] = @ + instr'.mint_data.amount]
                 ELSE minted
    /\ UNCHANGED consumed

\* The sender, who knows an opening of the first source account, builds its
\* message to the receiver.  `sender_source_amount - transfer_amount` on u64
\* panics in a build with overflow checks and wraps in one without.
SenderClient ==
    /\ pc = "idle"
    /\ Cardinality(Initialized) = 2
    /\ \E sp \in FirstSources : \E o \in Openings(account_state[sp[1]].comm),
          a \in ClientAmounts, sender_dest_open \in OpenSet, interim_open \in OpenSet,
          nonce_scalar \in NonceScalarSet, overflow_checks \in BOOLEAN :
          /\ instr' = [op |-> "SenderClient",
                       accounts |-> <<sp[1], sp[2]>>,
                       sender_source_comm |-> account_state[sp[1]].comm,
                       sender_source_open |-> o[1],
                       sender_source_amount |-> o[2],
                       transfer_amount |-> a,
                       sender_dest_open |-> sender_dest_open,
                       nonce_scalar |-> nonce_scalar]
          /\ IF a > o[2] /\ overflow_checks
             THEN pc' = "done" /\ result' = "Panic"
             ELSE /\ pc' = "sent"
                  /\ result' = sample_transfer_sender_client_for_test(
                                   account_state[sp[1]].comm, o[1], o[2], a,
                                   sender_dest_open, interim_open, nonce_scalar)
    /\ UNCHANGED <<lamports, mint_state, account_state, minted, consumed>>

\* The receiver, who knows an opening of the second source account, turns the
\* sender's message into the TransferData.
ReceiverClient ==
    /\ pc = "sent"
    /\ \E o \in Openings(account_state[instr.accounts[2]].comm),
          receiver_dest_open \in OpenSet, nonce_scalar \in NonceScalarSet :
          /\ instr' = [op |-> "ReceiverClient",
                       accounts |-> instr.accounts,
                       sender_call |-> instr,
                       sender_message |-> result,
                       receiver_source_comm |-> account_state[instr.accounts[2]].comm,
                       receiver_source_open |-> o[1],
                       receiver_source_amount |-> o[2],
                       receiver_dest_open |-> receiver_dest_open,
                       nonce_scalar |-> nonce_scalar]
          /\ result' = sample_transfer_receiver_client_for_test(
                           result, account_state[instr.accounts[2]].comm, o[1],
                           receiver_dest_open, nonce_scalar)
          /\ pc' = "built"
    /\ UNCHANGED <<lamports, mint_state, account_state, minted, consumed>>

\* The TransferData goes to the program in the Instruction that the `transfer`
\* helper builds over the two sources and two fresh destinations.
SubmitByHelper ==
    /\ pc = "built"
    /\ \E dp \in FreshDests :
          LET ix == transfer("mint1", instr.accounts[1], instr.accounts[2],
                             dp[1], dp[2], result)
          IN process_transfer(ix.accounts, ix.data, instr.sender_message.interim_comm)
    /\ consumed' = IF result' = "Ok"
                   THEN [k \in TokenKeys |->
                           IF k \in {instr'.accounts[2], instr'.accounts[3]}
                           THEN consumed[k] + 1 ELSE consumed[k]]
                   ELSE consumed
    /\ UNCHANGED minted

\* The TransferData goes to the program with the accounts in the order
\* process_transfer reads them: mint, sources, destinations, rent sysvar.
SubmitInOrder ==
    /\ pc = "built"
    /\ \E dp \in FreshDests :
          process_transfer(<<"mint1", instr.accounts[1], instr.accounts[2],
                             dp[1], dp[2], RentKey>>,
                           result, instr.sender_message.interim_comm)
    /\ consumed' = IF result' = "Ok"
                   THEN [k \in TokenKeys |->
                           IF k \in {instr'.accounts[2], instr'.accounts[3]}
                           THEN consumed[k] + 1 ELSE consumed[k]]
                   ELSE consumed
    /\ UNCHANGED minted

NextClient ==
    \/ InitializeMint
    \/ ClientMint
    \/ SenderClient
    \/ ReceiverClient
    \/ SubmitByHelper
    \/ SubmitInOrder
    \/ HostReturn

SpecClient == Init /\ [][NextClient]_vars

\* ------------------------------------------------------------------- bytes

\* Width in bytes of a Pubkey, a CompressedRistretto and a Scalar.
KEY_BYTES == 32

\* Width in bytes of a u64.
U64_BYTES == 8

\* n copies of the byte b.
Repeat(b, n) == [i \in 1 .. n |-> b]

\* buf[from ..]
Skip(buf, n) == SubSeq(buf, n + 1, Len(buf))

\* buf[.. n]
Take(buf, n) == SubSeq(buf, 1, n)

RECURSIVE to_le_bytes(_, _)
\* u64::to_le_bytes, `width` bytes of it.
to_le_bytes(n, width) ==
    IF width = 0 THEN <<>> ELSE <<n % 256>> \o to_le_bytes(n \div 256, width - 1)

RECURSIVE from_le_bytes(_)
\* u64::from_le_bytes
from_le_bytes(bytes) ==
    IF bytes = <<>> THEN 0 ELSE bytes[1] + 256 * from_le_bytes(Tail(bytes))

\* The byte that fills the 32 bytes of each key the model names
\* (Pubkey::new(&[1; 32]) in the program's tests).
KeyByte(k) ==
    CASE k = ZeroKey -> 0
      [] k = "auth1" -> 1
      [] k = "auth2" -> 2
      [] k = "mint1" -> 3
      [] k = "mint2" -> 4
      [] k = RentKey -> 5
      [] OTHER -> 5 + KeyIndex(k)

\* Pubkey::to_bytes
Pubkey_to_bytes(k) == Repeat(KeyByte(k), KEY_BYTES)

\* Pubkey::new(bytes): every 32 bytes are a key; those that are no key the
\* model names are the key "other".
Pubkey_new(bytes) ==
    IF \E k \in Keys : Pubkey_to_bytes(k) = bytes
    THEN CHOOSE k \in Keys : Pubkey_to_bytes(k) = bytes
    ELSE "other"

\* CompressedRistretto::to_bytes
Ristretto_to_bytes(c) ==
    IF c.valid THEN <<c.pt[1], c.pt[2]>> \o Repeat(0, KEY_BYTES - 2)
    ELSE Repeat(255, KEY_BYTES)

\* CompressedRistretto(bytes): every 32 bytes are accepted; those that encode
\* no point are kept as an encoding that does not decompress.
CompressedRistretto(bytes) ==
    IF \E p \in Points : Ristretto_to_bytes(Compress(p)) = bytes
    THEN Compress(CHOOSE p \in Points : Ristretto_to_bytes(Compress(p)) = bytes)
    ELSE InvalidEncoding

\* Scalar::to_bytes: 32 bytes, little-endian.
Scalar_to_bytes(x) == to_le_bytes(x, KEY_BYTES)

\* Scalar::from_canonical_bytes: the scalar when the bytes are the canonical
\* encoding (a value below the group order), None otherwise.
Scalar_from_canonical_bytes(bytes) ==
    IF (\A i \in 2 .. KEY_BYTES : bytes[i] = 0) /\ bytes[1] < Q
    THEN <<bytes[1]>> ELSE <<>>

\* The unit struct BorshRangeProof: it serializes to no bytes.
BorshRangeProof == "BorshRangeProof"

\* Results of a decoder: the value and the bytes left, an io::Error, or a
\* panic of the program.
DecodeOk(value, rest) == [tag |-> "Ok", value |-> value, rest |-> rest]

DecodeErr == [tag |-> "Err"]

DecodePanic == [tag |-> "Panic"]

\* u64::deserialize of borsh: an error when fewer than 8 bytes are left.
u64_deserialize(buf) ==
    IF Len(buf) < U64_BYTES THEN DecodeErr
    ELSE DecodeOk(from_le_bytes(Take(buf, U64_BYTES)), Skip(buf, U64_BYTES))

\* BorshRistretto::deserialize: array_ref![buf, 0, 32] panics on a shorter
\* buffer; the 32 bytes are consumed.
BorshRistretto_deserialize(buf) ==
    IF Len(buf) < KEY_BYTES THEN DecodePanic
    ELSE DecodeOk(CompressedRistretto(Take(buf, KEY_BYTES)), Skip(buf, KEY_BYTES))

\* ProofKnowledge::deserialize: array_ref![buf, 0, 64] panics on a shorter
\* buffer; a non-canonical scalar is an io::Error; the local `buf` shadows the
\* parameter, which is never advanced.
ProofKnowledge_deserialize(buf) ==
    IF Len(buf) < 2 * KEY_BYTES THEN DecodePanic
    ELSE LET scalar == Scalar_from_canonical_bytes(SubSeq(buf, KEY_BYTES + 1, 2 * KEY_BYTES))
         IN IF scalar = <<>> THEN DecodeErr
            ELSE DecodeOk([nonce |-> CompressedRistretto(Take(buf, KEY_BYTES)),
                           scalar |-> scalar[1]],
                          buf)

\* ProofKnowledge::serialize
ProofKnowledge_serialize(proof) ==
    Ristretto_to_bytes(proof.nonce) \o Scalar_to_bytes(proof.scalar)

\* Results of CTokenInstruction::unpack and of try_from_slice.
UnpackOk(value) == [tag |-> "Ok", value |-> value]

UnpackErr(error) == [tag |-> "Err", error |-> error]

UnpackPanic == [tag |-> "Panic"]

\* try_from_slice of borsh around a decoder's result: all bytes must have been
\* read; the `?` in unpack turns an io::Error into ProgramError::BorshIoError.
try_from_slice(decoded) ==
    IF decoded.tag = "Panic" THEN UnpackPanic
    ELSE IF decoded.tag = "Err" THEN UnpackErr("BorshIoError")
    ELSE IF decoded.rest # <<>> THEN UnpackErr("BorshIoError")
    ELSE UnpackOk(decoded.value)

\* #[derive(BorshDeserialize)] for MintData: amount, out_comm, range_proof,
\* proof_knowledge, in this order.
MintData_deserialize(buf) ==
    LET amount == u64_deserialize(buf) IN
    IF amount.tag # "Ok" THEN amount ELSE
    LET out_comm == BorshRistretto_deserialize(amount.rest) IN
    IF out_comm.tag # "Ok" THEN out_comm ELSE
    LET proof_knowledge == ProofKnowledge_deserialize(out_comm.rest) IN
    IF proof_knowledge.tag # "Ok" THEN proof_knowledge ELSE
    DecodeOk([amount |-> amount.value, out_comm |-> out_comm.value,
              range_proof |-> BorshRangeProof,
              proof_knowledge |-> proof_knowledge.value],
             proof_knowledge.rest)

\* #[derive(BorshSerialize)] for MintData
MintData_try_to_vec(mint_data) ==
    to_le_bytes(mint_data.amount, U64_BYTES)
        \o Ristretto_to_bytes(mint_data.out_comm)
        \o ProofKnowledge_serialize(mint_data.proof_knowledge)

\* #[derive(BorshDeserialize)] for TransferData: in_comms, out_comms,
\* range_proofs, proofs_knowledge, each a pair.
TransferData_deserialize(buf) ==
    LET in0 == BorshRistretto_deserialize(buf) IN
    IF in0.tag # "Ok" THEN in0 ELSE
    LET in1 == BorshRistretto_deserialize(in0.rest) IN
    IF in1.tag # "Ok" THEN in1 ELSE
    LET out0 == BorshRistretto_deserialize(in1.rest) IN
    IF out0.tag # "Ok" THEN out0 ELSE
    LET out1 == BorshRistretto_deserialize(out0.rest) IN
    IF out1.tag # "Ok" THEN out1 ELSE
    LET pk0 == ProofKnowledge_deserialize(out1.rest) IN
    IF pk0.tag # "Ok" THEN pk0 ELSE
    LET pk1 == ProofKnowledge_deserialize(pk0.rest) IN
    IF pk1.tag # "Ok" THEN pk1 ELSE
    DecodeOk([in_comms |-> <<in0.value, in1.value>>,
              out_comms |-> <<out0.value, out1.value>>,
              range_proofs |-> <<BorshRangeProof, BorshRangeProof>>,
              proofs_knowledge |-> <<pk0.value, pk1.value>>],
             pk1.rest)

\* #[derive(BorshSerialize)] for TransferData
TransferData_try_to_vec(transfer_data) ==
    Ristretto_to_bytes(transfer_data.in_comms[1])
        \o Ristretto_to_bytes(transfer_data.in_comms[2])
        \o Ristretto_to_bytes(transfer_data.out_comms[1])
        \o Ristretto_to_bytes(transfer_data.out_comms[2])
        \o ProofKnowledge_serialize(transfer_data.proofs_knowledge[1])
        \o ProofKnowledge_serialize(transfer_data.proofs_knowledge[2])

\* #[derive(BorshDeserialize)] for CloseAccountData: amount.
CloseAccountData_deserialize(buf) ==
    LET amount == u64_deserialize(buf) IN
    IF amount.tag # "Ok" THEN amount
    ELSE DecodeOk([amount |-> amount.value], amount.rest)

\* #[derive(BorshSerialize)] for CloseAccountData
CloseAccountData_try_to_vec(close_account_data) ==
    to_le_bytes(close_account_data.amount, U64_BYTES)

\* CTokenInstruction::unpack_pubkey
unpack_pubkey(input) ==
    IF Len(input) >= KEY_BYTES
    THEN UnpackOk(<<Pubkey_new(Take(input, KEY_BYTES)), Skip(input, KEY_BYTES)>>)
    ELSE UnpackErr("InvalidInstruction")

\* The value of an Ok result under a new name for its payload.
WithOp(res, op, field) ==
    IF res.tag # "Ok" THEN res
    ELSE UnpackOk([op |-> op] @@ (field :> res.value))

\* CTokenInstruction::unpack
CTokenInstruction_unpack(input) ==
    IF input = <<>> THEN UnpackErr("InvalidInstruction")
    ELSE
    LET tag == Head(input)
        rest == Tail(input)
    IN
    CASE tag = 0 ->
           IF unpack_pubkey(rest).tag # "Ok" THEN unpack_pubkey(rest)
           ELSE UnpackOk([op |-> "InitializeMint",
                          mint_authority |-> unpack_pubkey(rest).value[1]])
      [] tag = 1 -> WithOp(try_from_slice(MintData_deserialize(rest)), "Mint", "mint_data")
      [] tag = 2 -> WithOp(try_from_slice(TransferData_deserialize(rest)),
                           "Transfer", "transfer_data")
      [] tag = 3 -> WithOp(try_from_slice(CloseAccountData_deserialize(rest)),
                           "CloseAccount", "close_account_data")
      [] OTHER -> UnpackErr("InvalidInstruction")

\* CTokenInstruction::pack
CTokenInstruction_pack(x) ==
    CASE x.op = "InitializeMint" -> <<0>> \o Pubkey_to_bytes(x.mint_authority)
      [] x.op = "Mint" -> <<1>> \o MintData_try_to_vec(x.mint_data)
      [] x.op = "Transfer" -> <<2>> \o TransferData_try_to_vec(x.transfer_data)
      [] x.op = "CloseAccount" -> <<3>> \o CloseAccountData_try_to_vec(x.close_account_data)

\* bool::serialize of borsh
bool_to_byte(b) == IF b THEN 1 ELSE 0

\* A Mint serializer that writes the supply before the authority.
Mint_try_to_vec_supply_first(mint) ==
    to_le_bytes(mint.supply, U64_BYTES)
        \o Pubkey_to_bytes(mint.mint_authority)
        \o <<bool_to_byte(mint.is_initialized)>>

\* #[derive(BorshSerialize)] for Mint: mint_authority, supply, is_initialized.
Mint_try_to_vec(mint) ==
    Pubkey_to_bytes(mint.mint_authority)
        \o to_le_bytes(mint.supply, U64_BYTES)
        \o <<bool_to_byte(mint.is_initialized)>>

\* #[derive(BorshSerialize)] for Account: mint, is_initialized, comm.
Account_try_to_vec(account) ==
    Pubkey_to_bytes(account.mint)
        \o <<bool_to_byte(account.is_initialized)>>
        \o Ristretto_to_bytes(account.comm)

\* Pack::pack: InvalidAccountData unless the buffer has exactly LEN bytes,
\* then pack_into_slice copies the serialized record over the buffer.
Pack_pack(bytes, dst_len, LEN) ==
    IF dst_len # LEN THEN UnpackErr("InvalidAccountData") ELSE UnpackOk(bytes)

\* Mint::unpack_from_slice on a buffer of MINT_LEN bytes: Mint::try_from_slice,
\* every failure mapped to InvalidAccountData.
Mint_unpack_from_slice(src) ==
    IF src[MINT_LEN] \notin {0, 1} THEN UnpackErr("InvalidAccountData")
    ELSE UnpackOk([mint_authority |-> Pubkey_new(Take(src, KEY_BYTES)),
                   supply |-> from_le_bytes(SubSeq(src, KEY_BYTES + 1,
                                                   KEY_BYTES + U64_BYTES)),
                   is_initialized |-> src[MINT_LEN] = 1])

\* Account::unpack_from_slice on a buffer of ACCOUNT_LEN bytes.
Account_unpack_from_slice(src) ==
    IF src[KEY_BYTES + 1] \notin {0, 1} THEN UnpackErr("InvalidAccountData")
    ELSE UnpackOk([mint |-> Pubkey_new(Take(src, KEY_BYTES)),
                   is_initialized |-> src[KEY_BYTES + 1] = 1,
                   comm |-> CompressedRistretto(Skip(src, KEY_BYTES + 1))])

\* Pack::unpack_unchecked: the length check, then unpack_from_slice.
Pack_unpack_unchecked(input, LEN, kind) ==
    IF Len(input) # LEN THEN UnpackErr("InvalidAccountData")
    ELSE IF kind = "Mint" THEN Mint_unpack_from_slice(input)
    ELSE Account_unpack_from_slice(input)

\* Pack::unpack: unpack_unchecked, then UninitializedAccount unless the
\* record is initialized.
Pack_unpack(input, LEN, kind) ==
    LET value == Pack_unpack_unchecked(input, LEN, kind) IN
    IF value.tag # "Ok" THEN value
    ELSE IF value.value.is_initialized THEN value
    ELSE UnpackErr("UninitializedAccount")

\* A check that compares the value and forgets the opening.
verify_commitment_any_opening(comm, open, val) ==
    comm.valid /\ PointMul(Value(comm.pt), H) = PointMul(val, H)

\* PedersenComm::verify_commitment(comm, CommitmentBase::default(), open, val)
verify_commitment(comm, open, val) ==
    comm = Compress(PointAdd(PointMul(open, G), PointMul(val, H)))

\* Instructions that are packed and unpacked.
SampleInstructions ==
    {[op |-> "InitializeMint", mint_authority |-> k] : k \in AuthKeys \cup {ZeroKey}}
    \cup
    {[op |-> "Mint",
      mint_data |-> [amount |-> a, out_comm |-> c, range_proof |-> BorshRangeProof,
                     proof_knowledge |-> pk]] :
        a \in {0, 57, U64_MAX}, c \in CommSet, pk \in ProofSet}
    \cup
    {[op |-> "Transfer",
      transfer_data |-> [in_comms |-> <<ZeroBytes, c>>,
                         out_comms |-> <<c, Compress(<<1, 1>>)>>,
                         range_proofs |-> <<BorshRangeProof, BorshRangeProof>>,
                         proofs_knowledge |-> <<pk, BaseProof>>]] :
        c \in CommSet, pk \in ProofSet}
    \cup
    {[op |-> "CloseAccount", close_account_data |-> [amount |-> a]] : a \in {0, 22}}

\* The instructions whose bytes are cut short, extended or altered.
BaseInstructions ==
    {[op |-> "InitializeMint", mint_authority |-> "auth1"],
     [op |-> "Mint",
      mint_data |-> [amount |-> 57, out_comm |-> Compress(<<1, 1>>),
                     range_proof |-> BorshRangeProof, proof_knowledge |-> BaseProof]],
     [op |-> "Transfer",
      transfer_data |-> [in_comms |-> <<ZeroBytes, ZeroBytes>>,
                         out_comms |-> <<ZeroBytes, Compress(<<1, 1>>)>>,
                         range_proofs |-> <<BorshRangeProof, BorshRangeProof>>,
                         proofs_knowledge |-> <<BaseProof, BaseProof>>]],
     [op |-> "CloseAccount", close_account_data |-> [amount |-> 22]]}

\* Instruction bytes the host may hand to the program: nothing, every prefix
\* of a packed instruction, a packed instruction with one more byte, with an
\* unknown tag, or with a last byte that makes a scalar non-canonical.
UnpackInputs ==
    UNION {{Take(CTokenInstruction_pack(x), n) : n \in 0 .. Len(CTokenInstruction_pack(x))} :
              x \in BaseInstructions}
    \cup {CTokenInstruction_pack(x) \o <<0>> : x \in BaseInstructions}
    \cup {<<t>> \o Tail(CTokenInstruction_pack(x)) : x \in BaseInstructions, t \in {4, 255}}
    \cup {Take(CTokenInstruction_pack(x), Len(CTokenInstruction_pack(x)) - 1) \o <<255>> :
            x \in {y \in BaseInstructions : y.op \in {"Mint", "Transfer"}}}

\* Mint records that are packed.
SampleMints ==
    {[mint_authority |-> k, supply |-> n, is_initialized |-> b] :
        k \in AuthKeys \cup {ZeroKey}, n \in {0, 42, U64_MAX}, b \in BOOLEAN}

\* Account records that are packed.
SampleAccounts ==
    {[mint |-> k, is_initialized |-> b, comm |-> c] :
        k \in MintKeys \cup {ZeroKey}, b \in BOOLEAN, c \in CommSet}

\* Processor::process decodes the bytes of an instruction.
Unpack ==
    /\ pc = "idle"
    /\ \E input \in UnpackInputs :
          /\ instr' = [op |-> "unpack", input |-> input]
          /\ result' = CTokenInstruction_unpack(input)
    /\ pc' = "done"
    /\ UNCHANGED <<lamports, mint_state, account_state, minted, consumed>>

\* A client packs an instruction.
Pack ==
    /\ pc = "idle"
    /\ \E x \in SampleInstructions :
          /\ instr' = [op |-> "pack", x |-> x]
          /\ result' = CTokenInstruction_pack(x)
    /\ pc' = "packed"
    /\ UNCHANGED <<lamports, mint_state, account_state, minted, consumed>>

\* The program unpacks the bytes that the client packed.
UnpackPacked ==
    /\ pc = "packed"
    /\ instr.op = "pack"
    /\ instr' = [op |-> "unpack_packed", x |-> instr.x, input |-> result]
    /\ result' = CTokenInstruction_unpack(result)
    /\ pc' = "done"
    /\ UNCHANGED <<lamports, mint_state, account_state, minted, consumed>>

\* Mint::pack or Account::pack into a buffer of LEN - 1, LEN or LEN + 1 bytes.
PackRecord ==
    /\ pc = "idle"
    /\ \E d \in {0, 1, 2} :
          \/ \E m \in SampleMints :
                /\ instr' = [op |-> "pack_record", kind |-> "Mint", LEN |-> MINT_LEN,
                             record |-> m, dst_len |-> MINT_LEN + d - 1]
                /\ result' = Pack_pack(Mint_try_to_vec(m), MINT_LEN + d - 1, MINT_LEN)
          \/ \E a \in SampleAccounts :
                /\ instr' = [op |-> "pack_record", kind |-> "Account", LEN |-> ACCOUNT_LEN,
                             record |-> a, dst_len |-> ACCOUNT_LEN + d - 1]
                /\ result' = Pack_pack(Account_try_to_vec(a), ACCOUNT_LEN + d - 1,
                                       ACCOUNT_LEN)
    /\ pc' = IF result'.tag = "Ok" THEN "packed" ELSE "done"
    /\ UNCHANGED <<lamports, mint_state, account_state, minted, consumed>>

\* unpack_unchecked and unpack of the buffer that pack filled.
UnpackRecord ==
    /\ pc = "packed"
    /\ instr.op = "pack_record"
    /\ instr' = [op |-> "unpack_record", kind |-> instr.kind, record |-> instr.record,
                 input |-> result.value]
    /\ result' = [unpack_unchecked |->
                      Pack_unpack_unchecked(result.value, instr.LEN, instr.kind),
                  unpack |-> Pack_unpack(result.value, instr.LEN, instr.kind)]
    /\ pc' = "done"
    /\ UNCHANGED <<lamports, mint_state, account_state, minted, consumed>>

\* A commitment to `val` under `open` is checked against a claimed opening
\* and value.
VerifyCommitment ==
    /\ pc = "idle"
    /\ \E open \in Scalars, val \in Scalars, open2 \in Scalars, val2 \in Scalars :
          /\ instr' = [op |-> "verify_commitment",
                       comm |-> Pedersen_commit(open, val),
                       committed |-> <<open, val>>,
                       open |-> open2, val |-> val2]
          /\ result' = verify_commitment(Pedersen_commit(open, val), open2, val2)
    /\ pc' = "done"
    /\ UNCHANGED <<lamports, mint_state, account_state, minted, consumed>>

NextPure ==
    \/ Unpack
    \/ Pack
    \/ UnpackPacked
    \/ PackRecord
    \/ UnpackRecord
    \/ VerifyCommitment
    \/ HostReturn

SpecPure == Init /\ [][NextPure]_vars

\* ------------------------------------------------------------ vocabulary

\* Processor::process returned for an instruction of kind `op`.
Done(op) == pc = "done" /\ instr.op = op

\* The next state is the return of Processor::process for an instruction of kind `op`.
Returns(op) == pc = "idle" /\ pc' = "done" /\ instr'.op = op

\* The results that are a ProgramError (a panic is not a returned error).
IsError(res) == res \notin {"Ok", "None", "Panic"}

\* The destination accounts an accepted instruction initializes.
Dests(ins) ==
    IF ins.op = "Mint" THEN {ins.accounts[2]}
    ELSE IF ins.op = "Transfer" THEN {ins.accounts[4], ins.accounts[5]}
    ELSE {}

\* The relation the Mint proof of knowledge is to satisfy:
\* s*G == c*(out_comm - amount*G) + N, with c the hash of the nonce bytes.
MintRelation(mint_data) ==
    LET N == mint_data.proof_knowledge.nonce
        c == HashToScalar(N)
        amount_ristretto == PointMul(ScalarFrom(mint_data.amount), G)
        out_comm_ristretto == mint_data.out_comm.pt
    IN PointMul(mint_data.proof_knowledge.scalar, G)
          = PointAdd(PointMul(c, PointSub(out_comm_ristretto, amount_ristretto)), N.pt)

\* The relation the sender's proof of knowledge is to satisfy:
\* s*G == c*(C_src - C_dst - C_int) + N, with c the hash of the nonce bytes.
SenderRelation(ins) ==
    LET pk == ins.transfer_data.proofs_knowledge[1]
        c == HashToScalar(pk.nonce)
        L == PointSub(PointSub(ins.transfer_data.in_comms[1].pt,
                               ins.transfer_data.out_comms[1].pt),
                      ins.interim_comm.pt)
    IN PointMul(pk.scalar, G) = PointAdd(PointMul(c, L), pk.nonce.pt)

\* Every point of the transfer data decompresses.
TransferDecodes(transfer_data) ==
    /\ transfer_data.proofs_knowledge[1].nonce.valid
    /\ transfer_data.proofs_knowledge[2].nonce.valid
    /\ \A i \in 1 .. 2 : transfer_data.in_comms[i].valid /\ transfer_data.out_comms[i].valid

\* ------------------------------------------------------------------ claims

\* C1: when Processor::process returns an error, for any of the four
\* instructions, the data and the lamports of every account are what they
\* were before the instruction.
C1_ErrorLeavesAccounts ==
    [][(pc' = "done" /\ IsError(result')) => UNCHANGED ledger]_vars

\* C1 witness: a Transfer was rejected on a ledger that already holds an
\* initialized account with closed sources.
C1_Witness ==
    /\ Done("Transfer")
    /\ IsError(result)
    /\ \E a \in TokenKeys : account_state[a].is_initialized /\ lamports[a] = 0

\* C2: the initialized flag of an account never goes back to false, and every
\* account an accepted Mint or Transfer initializes as a destination was not
\* initialized before the instruction.
C2_InitializedAtMostOnce ==
    [][/\ \A a \in TokenKeys :
            account_state[a].is_initialized => account_state'[a].is_initialized
       /\ (pc' = "done" /\ result' = "Ok") =>
            \A d \in Dests(instr') :
                ~account_state[d].is_initialized /\ account_state'[d].is_initialized]_vars

\* C2 witness: a Mint that named an initialized destination came back with
\* AlreadyInUse.
C2_Witness ==
    /\ Done("Mint")
    /\ result = "AlreadyInUse"
    /\ account_state[instr.accounts[2]].is_initialized

\* C3: no Transfer is accepted that names as a source an account that an
\* earlier accepted Transfer already consumed.
C3_NoSecondSpend ==
    [][(Returns("Transfer") /\ result' = "Ok") =>
          \A i \in 2 .. 3 : consumed[instr'.accounts[i]] = 0]_vars

\* C4: the commitment and the mint of an initialized account never change.
C4_CommitmentImmutable ==
    [][\A a \in TokenKeys :
          account_state[a].is_initialized =>
              /\ account_state'[a].comm = account_state[a].comm
              /\ account_state'[a].mint = account_state[a].mint]_vars

\* C4 witness: an accepted Transfer closed an initialized source, which still
\* holds its record.
C4_Witness ==
    /\ Done("Transfer")
    /\ result = "Ok"
    /\ account_state[instr.accounts[2]].is_initialized
    /\ instr.accounts[2] \notin Dests(instr)
    /\ lamports[instr.accounts[2]] = 0

\* C5: the supply of an initialized mint is the sum of the amounts of the
\* Mints accepted against it since its InitializeMint.
C5_SupplyIsSumOfMints ==
    \A m \in MintKeys : mint_state[m].is_initialized => mint_state[m].supply = minted[m]

\* C5 witness: after 57 and 43 were minted the supply is 100, and a further
\* Mint was rejected for overflow.
C5_Witness ==
    /\ Done("Mint")
    /\ result = "Overflow"
    /\ mint_state["mint1"].supply = 100

\* C6: in every accepted Transfer the values hidden in the two input
\* commitments sum to the values hidden in the two output commitments.
C6_ValueBalance ==
    (Done("Transfer") /\ result = "Ok") =>
        ScalarAdd(Value(instr.transfer_data.in_comms[1].pt),
                  Value(instr.transfer_data.in_comms[2].pt))
          = ScalarAdd(Value(instr.transfer_data.out_comms[1].pt),
                      Value(instr.transfer_data.out_comms[2].pt))

\* C7: a Mint whose other checks pass is accepted exactly when its proof of
\* knowledge satisfies s*G == c*(out_comm - amount*G) + N, and is rejected
\* with InvalidProof otherwise.
C7_MintProofOfKnowledge ==
    (Done("Mint") /\ result \in {"Ok", "InvalidProof"}) =>
        (result = "Ok" <=> MintRelation(instr.mint_data))

\* C8: a Transfer whose sender response scalar does not satisfy the sender
\* relation, and whose other checks pass, is rejected with InvalidProof and
\* no account is changed.
C8_BadSenderScalarRejected ==
    [][(/\ Returns("Transfer")
        /\ result' \in {"Ok", "InvalidProof"}
        /\ TransferDecodes(instr'.transfer_data)
        /\ ~SenderRelation(instr')) =>
          (result' = "InvalidProof" /\ UNCHANGED ledger)]_vars

\* C9: an accepted Mint or Transfer carries, for every output commitment, a
\* range proof that verifies against that commitment.
C9_RangeProofsVerified ==
    /\ (Done("Mint") /\ result = "Ok") =>
          RangeProofVerify(instr.mint_data.range_proof, instr.mint_data.out_comm)
    /\ (Done("Transfer") /\ result = "Ok") =>
          \A i \in 1 .. 2 :
              RangeProofVerify(instr.transfer_data.range_proofs[i],
                               instr.transfer_data.out_comms[i])

\* C10: InitializeMint with accounts [mint, rent sysvar] on an initialized
\* mint returns AlreadyInUse and leaves the mint's authority, supply and
\* initialized flag as they were.
C10_ReinitializeRejected ==
    [][\A m \in MintKeys :
          (/\ Returns("InitializeMint")
           /\ instr'.accounts = <<m, RentKey>>
           /\ mint_state[m].is_initialized) =>
              (result' = "AlreadyInUse" /\ mint_state'[m] = mint_state[m])]_vars

\* C10 witness: a second InitializeMint, under another authority, on a mint
\* that has a supply came back with AlreadyInUse.
C10_Witness ==
    /\ Done("InitializeMint")
    /\ result = "AlreadyInUse"
    /\ instr.accounts = <<"mint1", RentKey>>
    /\ mint_state["mint1"].supply > 0
    /\ instr.mint_authority # mint_state["mint1"].mint_authority

\* C11: after a successful InitializeMint(authority) the mint record has the
\* given authority, supply 0 and is initialized, whatever the record held
\* before.
C11_InitializeMintSetsRecord ==
    (Done("InitializeMint") /\ result = "Ok") =>
        mint_state[instr.accounts[1]]
          = [mint_authority |-> instr.mint_authority, supply |-> 0, is_initialized |-> TRUE]

\* The instruction names the accounts of an InitializeMint: [mint, rent sysvar].
InitializeMintAccountsOf(ins, m) == ins.accounts = <<m, RentKey>>

\* The instruction names the accounts of a Mint: [mint or any account, token
\* account, authority, rent sysvar].
MintAccountsOf(ins) ==
    /\ Len(ins.accounts) = 4
    /\ ins.accounts[2] \in TokenKeys
    /\ ins.accounts[4] = RentKey

\* In the current ledger the Mint `ins` passes every check that process_mint
\* makes before it compares the authority: the destination is not initialized
\* and holds the rent-exempt minimum, the nonce and the commitment decode, and
\* the mint is initialized.
MintReachesAuthority(ins) ==
    /\ MintAccountsOf(ins)
    /\ ins.accounts[1] \in MintKeys
    /\ ~account_state[ins.accounts[2]].is_initialized
    /\ lamports[ins.accounts[2]] >= minimum_balance(ACCOUNT_LEN)
    /\ ins.mint_data.proof_knowledge.nonce.valid
    /\ ins.mint_data.out_comm.valid
    /\ mint_state[ins.accounts[1]].is_initialized

\* C12: InitializeMint with accounts [mint, rent sysvar] on an un-initialized
\* mint whose lamports are below the rent-exempt minimum of its data length
\* returns NotRentExempt and leaves the mint record as it was.
C12_UnderfundedMintRejected ==
    [][\A m \in MintKeys :
          (/\ Returns("InitializeMint")
           /\ InitializeMintAccountsOf(instr', m)
           /\ ~mint_state[m].is_initialized
           /\ lamports[m] < minimum_balance(data_len(m))) =>
              (result' = "NotRentExempt" /\ mint_state'[m] = mint_state[m])]_vars

\* C12 witness: InitializeMint on the mint account that holds 57 lamports came
\* back with NotRentExempt, and the mint is not initialized.
C12_Witness ==
    /\ Done("InitializeMint")
    /\ result = "NotRentExempt"
    /\ instr.accounts = <<"mint2", RentKey>>
    /\ lamports["mint2"] = 57
    /\ ~mint_state["mint2"].is_initialized

\* C13: a Mint whose destination is an initialized token account returns
\* AlreadyInUse; the destination's record and every mint's supply are as they
\* were.
C13_MintIntoInitializedRejected ==
    [][(/\ Returns("Mint")
        /\ MintAccountsOf(instr')
        /\ account_state[instr'.accounts[2]].is_initialized) =>
          /\ result' = "AlreadyInUse"
          /\ account_state'[instr'.accounts[2]] = account_state[instr'.accounts[2]]
          /\ mint_state' = mint_state]_vars

\* C13 witness: a Mint carrying another commitment than the one its
\* initialized destination holds came back with AlreadyInUse, the supply
\* being positive.
C13_Witness ==
    /\ Done("Mint")
    /\ result = "AlreadyInUse"
    /\ instr.accounts[1] = "mint1"
    /\ account_state[instr.accounts[2]].is_initialized
    /\ account_state[instr.accounts[2]].comm # instr.mint_data.out_comm
    /\ mint_state["mint1"].supply > 0

\* C14: a Mint that passes the checks made before the authority comparison,
\* and whose authority account is not the mint's recorded authority, returns
\* OwnerMismatch; no mint record and no token account record changes.
C14_WrongAuthorityRejected ==
    [][(/\ Returns("Mint")
        /\ MintReachesAuthority(instr')
        /\ instr'.accounts[3] # mint_state[instr'.accounts[1]].mint_authority) =>
          /\ result' = "OwnerMismatch"
          /\ mint_state' = mint_state
          /\ account_state' = account_state]_vars

\* C14 witness: a signed Mint by auth2 against a mint of auth1 that already
\* has a supply came back with OwnerMismatch, its destination un-initialized.
C14_Witness ==
    /\ Done("Mint")
    /\ result = "OwnerMismatch"
    /\ instr.accounts[3] = "auth2"
    /\ mint_state["mint1"].mint_authority = "auth1"
    /\ mint_state["mint1"].supply > 0
    /\ ~account_state[instr.accounts[2]].is_initialized

\* C15: after an accepted Mint the destination record has the mint account's
\* key as mint, is initialized, and holds the out_comm of the instruction.
C15_MintWritesDestination ==
    (Done("Mint") /\ result = "Ok") =>
        account_state[instr.accounts[2]]
          = [mint |-> instr.accounts[1],
             is_initialized |-> TRUE,
             comm |-> instr.mint_data.out_comm]

\* C15 witness: the second accepted Mint (43 after 57) wrote a commitment
\* other than the all-zero bytes.
C15_Witness ==
    /\ Done("Mint")
    /\ result = "Ok"
    /\ instr.mint_data.amount = 43
    /\ mint_state["mint1"].supply = 100
    /\ instr.mint_data.out_comm = Compress(<<1, 1>>)

\* C16: a Mint that passes every other check and whose amount added to the
\* supply exceeds u64::MAX returns Overflow; the supply does not wrap, and no
\* mint record and no token account record is written.
C16_OverflowRejected ==
    [][(/\ Returns("Mint")
        /\ MintReachesAuthority(instr')
        /\ instr'.accounts[3] = mint_state[instr'.accounts[1]].mint_authority
        /\ mint_state[instr'.accounts[1]].supply + instr'.mint_data.amount > U64_MAX) =>
          /\ result' = "Overflow"
          /\ mint_state' = mint_state
          /\ account_state' = account_state]_vars

\* C16 witness: with a supply of 114 a Mint of 43 came back with Overflow and
\* its destination is still un-initialized.
C16_Witness ==
    /\ Done("Mint")
    /\ result = "Overflow"
    /\ mint_state["mint1"].supply = 114
    /\ instr.mint_data.amount = 43
    /\ account_state[instr.accounts[2]] = AccountDefault

\* The instruction names at least [mint, source, source], the sources being
\* token accounts.
TransferSourcesOf(ins) ==
    /\ Len(ins.accounts) >= 3
    /\ ins.accounts[2] \in TokenKeys
    /\ ins.accounts[3] \in TokenKeys

\* The pair of commitments the two sources of `ins` hold in the current ledger.
SourceComms(ins) ==
    <<account_state[ins.accounts[2]].comm, account_state[ins.accounts[3]].comm>>

\* In the current ledger the Transfer `ins` passes every check that
\* process_transfer makes before it looks at the destinations: the in_comms
\* are the stored commitments and both sources carry the passed mint key; the
\* destinations are token accounts.
TransferReachesDestinations(ins) ==
    /\ TransferSourcesOf(ins)
    /\ Len(ins.accounts) >= 5
    /\ ins.accounts[4] \in TokenKeys
    /\ ins.accounts[5] \in TokenKeys
    /\ SourceComms(ins) = ins.transfer_data.in_comms
    /\ account_state[ins.accounts[2]].mint = ins.accounts[1]
    /\ account_state[ins.accounts[3]].mint = ins.accounts[1]

\* C17: a Transfer whose in_comms differ, in either position, from the pair of
\* commitments stored in its two sources returns CommitmentMismatch, and no
\* account is modified.
C17_CommitmentMismatchRejected ==
    [][(/\ Returns("Transfer")
        /\ TransferSourcesOf(instr')
        /\ SourceComms(instr') # instr'.transfer_data.in_comms) =>
          (result' = "CommitmentMismatch" /\ UNCHANGED ledger)]_vars

\* C17 witness: a Transfer from two initialized sources whose in_comms match
\* the sender's source and differ from the receiver's came back with
\* CommitmentMismatch.
C17_Witness ==
    /\ Done("Transfer")
    /\ result = "CommitmentMismatch"
    /\ account_state[instr.accounts[2]].is_initialized
    /\ account_state[instr.accounts[3]].is_initialized
    /\ instr.transfer_data.in_comms[1] = account_state[instr.accounts[2]].comm
    /\ instr.transfer_data.in_comms[2] # account_state[instr.accounts[3]].comm

\* C18: a Transfer whose in_comms match the stored commitments and one of
\* whose sources carries another mint than the key of the account at position
\* 0 returns MintMismatch, and no account is modified.
C18_MintMismatchRejected ==
    [][(/\ Returns("Transfer")
        /\ TransferSourcesOf(instr')
        /\ SourceComms(instr') = instr'.transfer_data.in_comms
        /\ \E i \in 2 .. 3 : account_state[instr'.accounts[i]].mint # instr'.accounts[1]) =>
          (result' = "MintMismatch" /\ UNCHANGED ledger)]_vars

\* C18 witness: a Transfer whose sender source carries the passed mint and
\* whose receiver source does not came back with MintMismatch.
C18_Witness ==
    /\ Done("Transfer")
    /\ result = "MintMismatch"
    /\ account_state[instr.accounts[2]].is_initialized
    /\ account_state[instr.accounts[2]].mint = instr.accounts[1]
    /\ account_state[instr.accounts[3]].mint # instr.accounts[1]

\* C19: a Transfer that passes the checks on its sources and one of whose
\* destinations is initialized returns AlreadyInUse; no lamports are zeroed
\* and no record is written.
C19_InitializedDestinationRejected ==
    [][(/\ Returns("Transfer")
        /\ TransferReachesDestinations(instr')
        /\ \E i \in 4 .. 5 : account_state[instr'.accounts[i]].is_initialized) =>
          (result' = "AlreadyInUse" /\ UNCHANGED ledger)]_vars

\* C19 witness: a Transfer whose sender destination is fresh and whose
\* receiver destination is initialized came back with AlreadyInUse, the
\* sources still funded.
C19_Witness ==
    /\ Done("Transfer")
    /\ result = "AlreadyInUse"
    /\ ~account_state[instr.accounts[4]].is_initialized
    /\ account_state[instr.accounts[5]].is_initialized
    /\ lamports[instr.accounts[2]] > 0
    /\ lamports[instr.accounts[3]] > 0

\* C20: a Transfer that passes the checks made before the rent check, and one
\* of whose destinations (the sender's or the receiver's) holds less than the
\* rent-exempt minimum, returns NotRentExempt.
C20_UnderfundedDestinationRejected ==
    [][(/\ Returns("Transfer")
        /\ TransferReachesDestinations(instr')
        /\ \A i \in 4 .. 5 : ~account_state[instr'.accounts[i]].is_initialized
        /\ Len(instr'.accounts) = 6
        /\ instr'.accounts[6] = RentKey
        /\ \E i \in 4 .. 5 : lamports[instr'.accounts[i]] < minimum_balance(ACCOUNT_LEN)) =>
          result' = "NotRentExempt"]_vars

\* C21: after every accepted Transfer the lamport balance of the sender's
\* source and of the receiver's source is zero.
C21_SourcesClosed ==
    (Done("Transfer") /\ result = "Ok") =>
        /\ lamports[instr.accounts[2]] = 0
        /\ lamports[instr.accounts[3]] = 0

\* An accepted Transfer has closed two distinct sources, each spent for the
\* first time.
C21_Witness ==
    /\ Done("Transfer") /\ result = "Ok"
    /\ instr.accounts[1] \in MintKeys
    /\ instr.accounts[2] # instr.accounts[3]
    /\ account_state[instr.accounts[2]].is_initialized
    /\ account_state[instr.accounts[3]].is_initialized
    /\ consumed[instr.accounts[2]] = 1 /\ consumed[instr.accounts[3]] = 1
    /\ lamports[instr.accounts[2]] = 0 /\ lamports[instr.accounts[3]] = 0

\* C22: after every accepted Transfer, the sender's destination holds the
\* initialized record of the passed mint with out_comms.0 and the receiver's
\* destination holds the one with out_comms.1.
C22_DestinationsHoldOutComms ==
    (Done("Transfer") /\ result = "Ok") =>
        /\ account_state[instr.accounts[4]] =
              [mint |-> instr.accounts[1], is_initialized |-> TRUE,
               comm |-> instr.transfer_data.out_comms[1]]
        /\ account_state[instr.accounts[5]] =
              [mint |-> instr.accounts[1], is_initialized |-> TRUE,
               comm |-> instr.transfer_data.out_comms[2]]

\* C23: a Transfer step, whatever it returns, leaves every mint record as it
\* was, and a step that changes the supply of a mint is a Mint step.
C23_TransferLeavesMint ==
    [][/\ Returns("Transfer") => mint_state' = mint_state
       /\ (\E m \in MintKeys : mint_state'[m].supply # mint_state[m].supply)
              => Returns("Mint")]_vars

\* A Transfer was accepted under a mint whose supply is not zero.
C23_Witness ==
    /\ Done("Transfer") /\ result = "Ok"
    /\ instr.accounts[1] \in MintKeys
    /\ mint_state[instr.accounts[1]].supply > 0

\* The Transfer `ins` carries the account list that the `transfer` helper builds.
BuiltByHelper(ins) ==
    \E s0 \in TokenKeys, s1 \in TokenKeys, d0 \in TokenKeys, d1 \in TokenKeys :
        ins.accounts = transfer("mint1", s0, s1, d0, d1, ins.transfer_data).accounts

\* C24: a Transfer that the `transfer` helper builds from the honest clients'
\* TransferData over two minted sources and two fresh rent-exempt
\* destinations is accepted.
C24_HelperTransferAccepted ==
    (Done("Transfer") /\ BuiltByHelper(instr)) => result = "Ok"

\* C25: the receiver's destination commitment commits to v_r_src + a, and an
\* accepted Transfer of the clients' data conserves the total hidden value.
C25_ReceiverCommitsToSum ==
    /\ pc = "built" =>
          result.out_comms[2] =
              commit_pedersen(instr.receiver_dest_open,
                              instr.receiver_source_amount
                                  + instr.sender_message.transfer_amount)
    /\ (Done("Transfer") /\ result = "Ok") =>
          ScalarAdd(Value(instr.transfer_data.out_comms[1].pt),
                    Value(instr.transfer_data.out_comms[2].pt))
              = ScalarAdd(Value(instr.transfer_data.in_comms[1].pt),
                          Value(instr.transfer_data.in_comms[2].pt))

\* The sender's blinding delta k_s = r_s_src - r_s_dst - r_int.
SenderDelta(call, message) ==
    ScalarSub(ScalarSub(call.sender_source_open, call.sender_dest_open),
              message.interim_open)

\* The receiver's blinding delta k_r = r_r_src + r_int - r_r_dst.
ReceiverDelta(call) ==
    ScalarSub(ScalarAdd(call.receiver_source_open, call.sender_message.interim_open),
              call.receiver_dest_open)

\* The proof (N, s) is the Schnorr proof of knowledge of k under nonce scalar
\* t: N = t*G, s = k*c + t with c the hash of the bytes of N, and
\* s*G == c*(k*G) + N.
SchnorrProofOf(proof, k, t) ==
    LET c == HashToScalar(proof.nonce) IN
    /\ proof.nonce = Compress(PointMul(t, G))
    /\ proof.scalar = ScalarAdd(ScalarMul(k, c), t)
    /\ PointMul(proof.scalar, G)
          = PointAdd(PointMul(c, PointMul(k, G)), proof.nonce.pt)

\* C26: the pair (N, s) that the sender step emits, and the one that the
\* receiver step emits, has N = t*G and s = k*c + t and satisfies
\* s*G == c*(k*G) + N.
C26_NonceIsMultipleOfG ==
    /\ pc = "sent" =>
          SchnorrProofOf(result.proof_knowledge_sender,
                         SenderDelta(instr, result), instr.nonce_scalar)
    /\ pc = "built" =>
          SchnorrProofOf(result.proofs_knowledge[2],
                         ReceiverDelta(instr), instr.nonce_scalar)

\* C27: after every sender step with a <= v_s_src the response is built over
\* k_s = r_s_src - r_s_dst - r_int, and C_s_src - C_s_dst - C_int = k_s*G.
C27_SenderRelationHolds ==
    (pc = "sent" /\ instr.transfer_amount <= instr.sender_source_amount) =>
        LET k_s == SenderDelta(instr, result)
            c == HashToScalar(result.proof_knowledge_sender.nonce)
            L_s == PointSub(PointSub(result.sender_source_comm.pt,
                                     result.sender_dest_comm.pt),
                            result.interim_comm.pt)
        IN /\ result.proof_knowledge_sender.scalar
                = ScalarAdd(ScalarMul(k_s, c), instr.nonce_scalar)
           /\ L_s = PointMul(k_s, G)

\* A sender step has sent part of a non-zero balance, with a non-zero
\* blinding delta.
C27_Witness ==
    /\ pc = "sent"
    /\ instr.transfer_amount > 0
    /\ instr.transfer_amount < instr.sender_source_amount
    /\ SenderDelta(instr, result) # 0

\* C28: after every receiver step the response is built over
\* k_r = r_r_src + r_int - r_r_dst, and C_r_dst - C_r_src - C_int = k_r*G.
C28_ReceiverRelationHolds ==
    pc = "built" =>
        LET k_r == ReceiverDelta(instr)
            c == HashToScalar(result.proofs_knowledge[2].nonce)
            L_r == PointSub(PointSub(result.out_comms[2].pt, result.in_comms[2].pt),
                            instr.sender_message.interim_comm.pt)
        IN /\ result.proofs_knowledge[2].scalar
                = ScalarAdd(ScalarMul(k_r, c), instr.nonce_scalar)
           /\ L_r = PointMul(k_r, G)

\* C29: a CloseAccount of an initialized account is accepted only if the
\* commitment of that account opens to the claimed amount under some opening.
C29_CloseAccountChecksOpening ==
    (/\ Done("CloseAccount") /\ result = "Ok"
     /\ account_state[instr.accounts[1]].is_initialized) =>
        \E open \in Scalars :
              account_state[instr.accounts[1]].comm
                  = commit_pedersen(open, instr.close_account_data.amount)

\* C30: an accepted CloseAccount of an initialized account into another
\* account leaves the source with zero lamports and the destination with its
\* previous lamports plus the source's previous lamports.
C30_CloseAccountMovesLamports ==
    [][(/\ Returns("CloseAccount") /\ result' = "Ok"
        /\ instr'.accounts[1] # instr'.accounts[2]
        /\ account_state[instr'.accounts[1]].is_initialized) =>
          LET source == instr'.accounts[1]
              destination == instr'.accounts[2]
          IN /\ lamports'[source] = 0
             /\ lamports'[destination] = lamports[destination] + lamports[source]]_vars

\* C31: a Mint or a Transfer never ends in a panic: whatever bytes its nonce
\* and commitments carry, Processor::process returns.
C31_NeverPanics ==
    (Done("Mint") \/ Done("Transfer")) => result # "Panic"

\* C36: once a mint record is initialized, no step clears its flag or changes
\* its authority.
C36_InitializedLatch ==
    [][\A m \in MintKeys :
          mint_state[m].is_initialized =>
              /\ mint_state'[m].is_initialized
              /\ mint_state'[m].mint_authority = mint_state[m].mint_authority]_vars

\* A second InitializeMint on a mint that has minted, and under which accounts
\* were spent, came back with AlreadyInUse.
C36_Witness ==
    /\ Done("InitializeMint")
    /\ result = "AlreadyInUse"
    /\ instr.accounts[1] \in MintKeys
    /\ mint_state[instr.accounts[1]].is_initialized
    /\ mint_state[instr.accounts[1]].supply > 0
    /\ \E k \in TokenKeys : consumed[k] > 0

\* C37: an accepted Mint carries the signature of the authority account.
C37_MintNeedsSigner ==
    (Done("Mint") /\ result = "Ok") => instr.is_signer

\* C38: an accepted Transfer names four distinct token accounts at its two
\* source and two destination positions.
C38_TransferAccountsDistinct ==
    (Done("Transfer") /\ result = "Ok") =>
        Cardinality({instr.accounts[i] : i \in 2 .. 5}) = 4

\* C39: a sender step yields a message only when the transfer amount does not
\* exceed the source amount.
C39_NoWrappedChange ==
    pc = "sent" => instr.transfer_amount <= instr.sender_source_amount

\* The lengths of the bodies that pack writes after each tag.
BodyLen(tag) ==
    CASE tag = 0 -> KEY_BYTES
      [] tag = 1 -> U64_BYTES + KEY_BYTES + 2 * KEY_BYTES
      [] tag = 2 -> 4 * KEY_BYTES + 4 * KEY_BYTES
      [] tag = 3 -> U64_BYTES

\* Input that the instruction format does not allow: no bytes, an unknown tag,
\* a body shorter or longer than the fields of its tag, or a body whose last
\* scalar is not canonical.
Malformed(input) ==
    \/ input = <<>>
    \/ /\ input # <<>>
       /\ \/ input[1] \notin 0 .. 3
          \/ /\ input[1] \in 0 .. 3
             /\ \/ Len(input) # 1 + BodyLen(input[1])
                \/ /\ input[1] \in {1, 2}
                   /\ Scalar_from_canonical_bytes(Skip(input, Len(input) - KEY_BYTES)) = <<>>

\* C32: CTokenInstruction::unpack returns InvalidInstruction for empty input,
\* for every leading tag other than 0, 1, 2 and 3, and for every body that is
\* too short, too long or fails field decoding for its tag.
C32_UnpackRejectsMalformed ==
    (pc = "done" /\ instr.op = "unpack" /\ Malformed(instr.input))
        => result = UnpackErr("InvalidInstruction")

\* C33: for every InitializeMint, Mint, Transfer and CloseAccount instruction
\* x, unpack(pack(x)) succeeds and equals x.
C33_InstructionRoundTrip ==
    (pc = "done" /\ instr.op = "unpack_packed") => result = UnpackOk(instr.x)

\* C34 (as amended): a Mint packs into a 41-byte buffer as authority (32
\* bytes), supply (8 bytes, little-endian), initialized (1 byte); an Account
\* packs into a 65-byte buffer as mint (32 bytes), initialized (1 byte),
\* commitment (32 bytes); unpack_unchecked gives back the record, unpack gives
\* it back when the record is initialized and returns UninitializedAccount
\* when it is not; packing into a buffer of any other length returns
\* InvalidAccountData.
C34_RecordRoundTrip ==
    /\ (pc = "done" /\ instr.op = "unpack_record") =>
          /\ Take(instr.input, KEY_BYTES) =
                Pubkey_to_bytes(IF instr.kind = "Mint" THEN instr.record.mint_authority
                                ELSE instr.record.mint)
          /\ instr.kind = "Mint" =>
                /\ Len(instr.input) = 41
                /\ SubSeq(instr.input, 33, 40) = to_le_bytes(instr.record.supply, 8)
                /\ instr.input[41] = bool_to_byte(instr.record.is_initialized)
          /\ instr.kind = "Account" =>
                /\ Len(instr.input) = 65
                /\ instr.input[33] = bool_to_byte(instr.record.is_initialized)
                /\ SubSeq(instr.input, 34, 65) = Ristretto_to_bytes(instr.record.comm)
          /\ result.unpack_unchecked = UnpackOk(instr.record)
          /\ result.unpack = IF instr.record.is_initialized THEN UnpackOk(instr.record)
                             ELSE UnpackErr("UninitializedAccount")
    /\ (instr.op = "pack_record" /\ pc \in {"packed", "done"}) =>
          /\ pc = "packed" <=> instr.dst_len = instr.LEN
          /\ pc = "done" => result = UnpackErr("InvalidAccountData")

\* An initialized Mint with a supply that fills more than one byte pattern, or
\* an initialized Account with a non-identity commitment, has gone through
\* pack and unpack.
C34_Witness ==
    /\ pc = "done"
    /\ instr.op = "unpack_record"
    /\ instr.record.is_initialized
    /\ instr.kind = "Mint"
    /\ instr.record.supply = 42
    /\ instr.record.mint_authority = "auth1"
    /\ result.unpack = UnpackOk(instr.record)

\* C34 as stated: for every Mint m and every Account a, unpack of the packed
\* buffer gives back the record.
C34_UnpackGivesBackEveryRecord ==
    (pc = "done" /\ instr.op = "unpack_record") => result.unpack = UnpackOk(instr.record)

\* C35: verify_commitment accepts the blinding and value that Commit was given,
\* and accepts another pair (r', v') only if r'*G + v'*H equals r*G + v*H.
C35_VerifyAgreesWithCommit ==
    (pc = "done" /\ instr.op = "verify_commitment") =>
        /\ <<instr.open, instr.val>> = instr.committed => result = TRUE
        /\ result = TRUE =>
              PointAdd(PointMul(instr.open, G), PointMul(instr.val, H))
                  = PointAdd(PointMul(instr.committed[1], G),
                             PointMul(instr.committed[2], H))

\* A commitment with a non-zero blinding and a non-zero value was verified
\* against its own opening.
C35_Witness ==
    /\ pc = "done"
    /\ instr.op = "verify_commitment"
    /\ instr.committed = <<instr.open, instr.val>>
    /\ instr.open # 0
    /\ instr.val # 0
    /\ result = TRUE

====
